---- MODULE Spec2Model ----
(***************************************************************************)
(* State-machine model of the interactive MuJoCo viewer:                   *)
(*   - KeyboardController (src/src/utils/KeyboardControl.js): the          *)
(*     keyboard-to-actuator control map;                                   *)
(*   - MuJoCoDemo.render (src/unnamed/part_000): the fixed-step simulation *)
(*     clock with control noise and drag perturbation;                     *)
(*   - RobotLoader (src/README.md): loading of robot definitions.          *)
(* Arrays keep the 0-based indices of the source.  Numbers are integers:   *)
(* control values in the unit of the configured step values, times in ms.  *)
(***************************************************************************)
EXTENDS Integers, Sequences, FiniteSets, TLC

VARIABLES
  \* ---- KeyboardController fields (constructor, lines 33-40)
  enabled,          \* this.enabled
  config,           \* this.config: the key of the SCENE_CONFIGS entry referred to, or null
  kcModel,          \* this.model: reference to the MjModel, or null
  kcData,           \* this.data: reference to the MjData, or null
  keyStates,        \* this.keyStates: object key code -> boolean
  actuatorIndices,  \* this.actuatorIndices: object actuator name -> index
  \* ---- document
  listeners,        \* the event listeners installed on document
  \* ---- engine objects
  model,            \* the MjModel (tables are constant during a behaviour)
  ctrl,             \* data.ctrl, the actuator control vector
  \* ---- what the last call did
  lastOp,           \* the last operation that ran: its name, and the scene name of an enable
  result,           \* return value of the last enable call
  actuatorValues,   \* the local object actuatorValues of the last update call
  event,            \* the last key event dispatched: tagName of its target, defaultPrevented
  wasEnabled,       \* this.enabled when the last operation started
  installs,         \* per event type: addEventListener calls minus removeEventListener calls
  \* ---- MuJoCoDemo (constructor, lines 32-33) and its MjData
  paused,           \* params.paused
  ctrlnoisestd,     \* params.ctrlnoisestd
  ctrlnoiserate,    \* params.ctrlnoiserate
  mujoco_time,      \* this.mujoco_time, ms
  timeMS,           \* argument of the current (or last) render call, ms
  pc,               \* position of render: "idle" between frames, "loop" in its while loop
  qfrc_applied,     \* data.qfrc_applied
  qpos,             \* data.qpos
  mocap_pos,        \* data.mocap_pos
  \* ---- DragStateManager
  physicsObject,    \* bodyID of dragStateManager.physicsObject, or NoBody
  worldHit,         \* dragStateManager.worldHit
  currentWorld,     \* dragStateManager.currentWorld
  \* ---- what the current (or last) frame did
  frame,            \* its branch, whether it dropped the backlog, its engine calls
  \* ---- RobotLoader and the engine's virtual filesystem
  loadedRobots,     \* this.loadedRobots: Map robot name -> robot info
  vfs,              \* the robot names whose files are staged in the virtual filesystem
  call              \* the load or cleanup call in progress (or the last one): its locals

kcVars == <<enabled, config, kcModel, kcData, keyStates, actuatorIndices>>
obsVars == <<lastOp, result, actuatorValues, event, wasEnabled, installs>>
demoVars == <<paused, ctrlnoisestd, ctrlnoiserate, mujoco_time, timeMS, pc>>
dataVars == <<qfrc_applied, qpos, mocap_pos>>
dragVars == <<physicsObject, worldHit, currentWorld>>
clockVars == <<demoVars, dataVars, dragVars, frame>>
loaderVars == <<loadedRobots, vfs, call>>
vars == <<kcVars, listeners, model, ctrl, obsVars, clockVars, loaderVars>>

----------------------------------------------------------------------------
(* Generic helpers *)

null == "null"
EmptyObj == [x \in {} |-> 0]

\* obj[k] = v on a JS object
Put(obj, k, v) == [x \in DOMAIN obj \cup {k} |-> IF x = k THEN v ELSE obj[x]]

\* a 0-based array with the elements of a sequence
Arr(seq) == [i \in 0..(Len(seq) - 1) |-> seq[i + 1]]

Min(a, b) == IF a <= b THEN a ELSE b
Max(a, b) == IF a >= b THEN a ELSE b

----------------------------------------------------------------------------
(* Bounds and input domains *)

MaxNu == 2                      \* most actuators of a model

SceneNames == {"xlerobot/scene.xml", "humanoid.xml", "car.xml"}
EventCodes == {"KeyW", "KeyS", "KeyA", "KeyD", "KeyQ"}
TagNames == {"INPUT", "TEXTAREA", "BODY"}
CtrlInit == {0, 7}              \* control values found in data.ctrl at start

MaxTime == 60                   \* last wall time of a frame, ms
MaxDragTime == 30                \* last wall time of a frame with drag sessions, ms
MaxPos == 3                     \* largest position coordinate the pose edit reaches, cm
Timesteps == {2, 5}             \* model.opt.timestep * 1000, ms
FrameDeltas == {3, 16, 36}      \* wall time between two frames, ms
DragFrameDeltas == {10}         \* the same, in the frame loop with drag sessions
NoiseStds == {0, 1}             \* params.ctrlnoisestd
NoiseRates == {0, 1}            \* params.ctrlnoiserate
NoiseVals == {-1, 0, 1}         \* control values the noise step can produce
\* world points of the pointer ray, in units of 0.1
Points == {<<0, 0, 0>>, <<1, 0, 0>>, <<0, 0, 1>>}

\* per-actuator (ctrllimited, ctrlrange): the engine's compiler accepts a
\* limited actuator only with range[0] < range[1]
LimitChoices ==
  { [limited |-> FALSE, lo |-> 0,  hi |-> 0],
    [limited |-> TRUE,  lo |-> -1, hi |-> 0],
    [limited |-> TRUE,  lo |-> 1,  hi |-> 2] }

----------------------------------------------------------------------------
(* Scene-specific control configurations *)

SCENE_CONFIGS ==
  [s \in {"xlerobot/scene.xml"} |->
    [controls |-> << [key |-> "KeyW", actuator |-> "forward", value |-> 1],
                     [key |-> "KeyS", actuator |-> "forward", value |-> -1],
                     [key |-> "KeyA", actuator |-> "turn",    value |-> -1],
                     [key |-> "KeyD", actuator |-> "turn",    value |-> 1] >>,
     description |-> "W/S: Forward/Back | A/D: Turn Left/Right"]]

\* the controls of the configuration this.config refers to
Controls(cfg) == SCENE_CONFIGS[cfg].controls

----------------------------------------------------------------------------
(* The MjModel: packed, null-terminated name table and actuator tables *)

nullChar == "NUL"

\* the name table: the world body's name, then each actuator's name, each
\* followed by the null character; one symbol stands for one name
RECURSIVE PackNames(_)
PackNames(actNames) ==
  IF actNames = <<>> THEN <<"world", nullChar>>
  ELSE PackNames(SubSeq(actNames, 1, Len(actNames) - 1))
         \o <<actNames[Len(actNames)], nullChar>>

\* offset of actuator i's name in the table
NameAdr(i) == 2 + 2 * i

\* limits holds two (ctrllimited, ctrlrange) choices: one for the actuators at
\* even indices, one for those at odd indices.
\* bodies of the scene: 0 the world, 1 a free body (joint 0, 7 position
\* coordinates from 0), 2 its child (hinge joint 1, coordinate 7), 3 a mocap
\* body, 4 a body fixed to the world (no joint; jntadr -1)
MkModel(actNames, limits, timestep) ==
  [ opt_timestep |-> timestep,
    nbody |-> 5,
    body_mass |-> Arr(<<0, 2, 1, 0, 3>>),
    body_mocapid |-> Arr(<<-1, -1, -1, 0, -1>>),
    body_rootid |-> Arr(<<0, 1, 1, 3, 4>>),
    body_jntadr |-> Arr(<<-1, 0, 1, -1, -1>>),
    jnt_qposadr |-> Arr(<<0, 7>>),
    nq |-> 8,
    nv |-> 7,
    nmocap |-> 1,
    nu |-> Len(actNames),
    names |-> Arr(PackNames(actNames)),
    name_actuatoradr |-> [i \in 0..(Len(actNames) - 1) |-> NameAdr(i)],
    actuator_ctrllimited |-> [i \in 0..(Len(actNames) - 1) |-> limits[(i % 2) + 1].limited],
    actuator_ctrlrange |->
      [j \in 0..(2 * Len(actNames) - 1) |->
         IF j % 2 = 0 THEN limits[((j \div 2) % 2) + 1].lo
         ELSE limits[((j \div 2) % 2) + 1].hi] ]

\* actuator name lists of the models: the configured actuators at several
\* indices, with and without other (named or unnamed) actuators
ActuatorLayouts ==
  { <<>>, <<"forward">>, <<"turn">>, <<"gripper">>,
    <<"forward", "turn">>, <<"turn", "forward">>, <<"gripper", "forward">>, <<"turn", "">>,
    <<"gripper", "forward", "turn">>, <<"turn", "", "forward">>,
    <<"", "turn", "gripper", "forward">> }

\* the models the controller is enabled on
Models ==
  { MkModel(s, l, 2) : s \in { a \in ActuatorLayouts : Len(a) <= MaxNu },
                       l \in [1..2 -> LimitChoices] }

\* the models the frame loop is run on: two unlimited actuators
ClockModels ==
  { MkModel(<<"forward", "turn">>,
            [i \in 1..2 |-> [limited |-> FALSE, lo |-> 0, hi |-> 0]], ts) : ts \in Timesteps }

----------------------------------------------------------------------------
(* KeyboardController *)

\* the controller object together with the listener table of document
This ==
  [ enabled |-> enabled, config |-> config, model |-> kcModel, data |-> kcData,
    keyStates |-> keyStates, actuatorIndices |-> actuatorIndices,
    listeners |-> listeners, installs |-> installs ]

addEventListener(t, type, handler) ==
  [t EXCEPT !.listeners = @ \cup {<<type, handler>>},
            !.installs = [@ EXCEPT ![type] = @ + 1]]

removeEventListener(t, type, handler) ==
  [t EXCEPT !.listeners = @ \ {<<type, handler>>},
            !.installs = [@ EXCEPT ![type] = @ - 1]]

\* sceneName in SCENE_CONFIGS
hasConfig(sceneName) == sceneName \in DOMAIN SCENE_CONFIGS

getConfig_fallback(sceneName) ==
  IF sceneName \in DOMAIN SCENE_CONFIGS THEN sceneName ELSE "xlerobot/scene.xml"

\* SCENE_CONFIGS[sceneName] || null
getConfig(sceneName) ==
  IF sceneName \in DOMAIN SCENE_CONFIGS THEN sceneName ELSE null

\* textDecoder.decode(names.subarray(adr)).split(nullChar)[0]
decodeName(m, i) ==
  LET adr == m.name_actuatoradr[i]
  IN IF m.names[adr] = nullChar THEN "" ELSE m.names[adr]

\* for (i = 0; i < model.nu; i++) this.actuatorIndices[name] = i
RECURSIVE buildIndices(_, _, _)
buildIndices(m, i, acc) ==
  IF i >= m.nu THEN acc
  ELSE buildIndices(m, i + 1, Put(acc, decodeName(m, i), i))

\* for (const ctrl of config.controls) this.keyStates[ctrl.key] = false
RECURSIVE initKeyStates(_, _, _)
initKeyStates(controls, i, acc) ==
  IF i > Len(controls) THEN acc
  ELSE initKeyStates(controls, i + 1, Put(acc, controls[i].key, FALSE))

disable_keepsKeyup(t) ==
  IF ~t.enabled THEN t
  ELSE [removeEventListener(t, "keydown", "_onKeyDown")
          EXCEPT !.enabled = FALSE, !.config = null, !.model = null, !.data = null,
                 !.keyStates = EmptyObj, !.actuatorIndices = EmptyObj]

disable_keepsKeyStates(t) ==
  IF ~t.enabled THEN t
  ELSE [removeEventListener(removeEventListener(t, "keydown", "_onKeyDown"),
                            "keyup", "_onKeyUp")
          EXCEPT !.enabled = FALSE, !.config = null, !.model = null, !.data = null,
                 !.actuatorIndices = EmptyObj]

disable(t) ==
  IF ~t.enabled THEN t
  ELSE [removeEventListener(removeEventListener(t, "keydown", "_onKeyDown"),
                            "keyup", "_onKeyUp")
          EXCEPT !.enabled = FALSE, !.config = null, !.model = null, !.data = null,
                 !.keyStates = EmptyObj, !.actuatorIndices = EmptyObj]

\* enable(sceneName, model, data): the controller afterwards and the value returned
enable(t, sceneName, m) ==
  LET d == disable(t)
      cfg == getConfig(sceneName)
  IN IF cfg = null THEN [this |-> d, ret |-> FALSE]
     ELSE LET e == [d EXCEPT !.config = cfg, !.model = "model", !.data = "data",
                             !.actuatorIndices = buildIndices(m, 0, EmptyObj),
                             !.keyStates = initKeyStates(Controls(cfg), 1, EmptyObj)]
              l == addEventListener(addEventListener(e, "keydown", "_onKeyDown"),
                                    "keyup", "_onKeyUp")
          IN [this |-> [l EXCEPT !.enabled = TRUE], ret |-> TRUE]

----------------------------------------------------------------------------
(* KeyboardController.update *)

\* the insertion-ordered object actuatorValues: a sequence of entries
AvNames(av) == { av[j].name : j \in 1..Len(av) }
AvObject(av) == [n \in AvNames(av) |-> (CHOOSE j \in 1..Len(av) : av[j].name = n)]
AvValue(av, n) == av[AvObject(av)[n]].value

accumulate_assign(av, name, value) ==
  [j \in 1..Len(av) |-> IF av[j].name = name THEN [av[j] EXCEPT !.value = value] ELSE av[j]]

\* actuatorValues[ctrl.actuator] += ctrl.value
accumulate(av, name, value) ==
  [j \in 1..Len(av) |-> IF av[j].name = name THEN [av[j] EXCEPT !.value = @ + value] ELSE av[j]]

RECURSIVE sumControls_stopsAtMissing(_, _, _, _)
sumControls_stopsAtMissing(controls, i, t, av) ==
  IF i > Len(controls) THEN av
  ELSE LET c == controls[i]
       IN IF c.actuator \notin DOMAIN t.actuatorIndices
          THEN av
          ELSE LET av1 == IF c.actuator \in AvNames(av) THEN av
                          ELSE Append(av, [name |-> c.actuator, value |-> 0])
                   av2 == IF c.key \in DOMAIN t.keyStates /\ t.keyStates[c.key]
                          THEN accumulate(av1, c.actuator, c.value)
                          ELSE av1
               IN sumControls_stopsAtMissing(controls, i + 1, t, av2)

\* first loop of update: group the controls by actuator
RECURSIVE sumControls(_, _, _, _)
sumControls(controls, i, t, av) ==
  IF i > Len(controls) THEN av
  ELSE LET c == controls[i]
       IN IF c.actuator \notin DOMAIN t.actuatorIndices
          THEN sumControls(controls, i + 1, t, av)
          ELSE LET av1 == IF c.actuator \in AvNames(av) THEN av
                          ELSE Append(av, [name |-> c.actuator, value |-> 0])
                   av2 == IF c.key \in DOMAIN t.keyStates /\ t.keyStates[c.key]
                          THEN accumulate(av1, c.actuator, c.value)
                          ELSE av1
               IN sumControls(controls, i + 1, t, av2)

clamp_swapped(m, idx, value) ==
  IF m.actuator_ctrllimited[idx]
  THEN Min(m.actuator_ctrlrange[2 * idx],
           Max(m.actuator_ctrlrange[2 * idx + 1], value))
  ELSE value

\* clampedValue: Math.max(min, Math.min(max, value)) if the actuator is limited
clamp(m, idx, value) ==
  IF m.actuator_ctrllimited[idx]
  THEN Max(m.actuator_ctrlrange[2 * idx],
           Min(m.actuator_ctrlrange[2 * idx + 1], value))
  ELSE value

writeCtrl_add(c, idx, value) == [c EXCEPT ![idx] = @ + value]

\* this.data.ctrl[idx] = clampedValue
writeCtrl(c, idx, value) == [c EXCEPT ![idx] = value]

\* second loop of update: apply the values to data.ctrl
RECURSIVE applyValues(_, _, _, _, _)
applyValues(av, j, t, m, c) ==
  IF j > Len(av) THEN c
  ELSE IF av[j].name \notin DOMAIN t.actuatorIndices
       THEN applyValues(av, j + 1, t, m, c)
       ELSE LET idx == t.actuatorIndices[av[j].name]
            IN applyValues(av, j + 1, t, m, writeCtrl(c, idx, clamp(m, idx, av[j].value)))

update_zeroesOthers(t, m, c) ==
  IF ~t.enabled \/ t.config = null \/ t.data = null
  THEN [ctrl |-> c, av |-> <<>>]
  ELSE LET av == sumControls(Controls(t.config), 1, t, <<>>)
       IN [ctrl |-> applyValues(av, 1, t, m, [i \in DOMAIN c |-> 0]), av |-> av]

\* update(): the control vector afterwards and the local actuatorValues
update(t, m, c) ==
  IF ~t.enabled \/ t.config = null \/ t.data = null
  THEN [ctrl |-> c, av |-> <<>>]
  ELSE LET av == sumControls(Controls(t.config), 1, t, <<>>)
       IN [ctrl |-> applyValues(av, 1, t, m, c), av |-> av]

----------------------------------------------------------------------------
(* Key event handlers: the key states afterwards, and whether preventDefault ran *)

onKeyDown_tracksAnyKey(t, code, tagName) ==
  IF ~t.enabled THEN [keyStates |-> t.keyStates, prevented |-> FALSE]
  ELSE IF tagName = "INPUT" \/ tagName = "TEXTAREA"
       THEN [keyStates |-> t.keyStates, prevented |-> FALSE]
       ELSE [keyStates |-> Put(t.keyStates, code, TRUE), prevented |-> TRUE]

onKeyDown(t, code, tagName) ==
  IF ~t.enabled THEN [keyStates |-> t.keyStates, prevented |-> FALSE]
  ELSE IF tagName = "INPUT" \/ tagName = "TEXTAREA"
       THEN [keyStates |-> t.keyStates, prevented |-> FALSE]
       ELSE IF code \in DOMAIN t.keyStates
            THEN [keyStates |-> [t.keyStates EXCEPT ![code] = TRUE], prevented |-> TRUE]
            ELSE [keyStates |-> t.keyStates, prevented |-> FALSE]

onKeyUp(t, code, tagName) ==
  IF ~t.enabled THEN [keyStates |-> t.keyStates, prevented |-> FALSE]
  ELSE IF code \in DOMAIN t.keyStates
       THEN [keyStates |-> [t.keyStates EXCEPT ![code] = FALSE], prevented |-> TRUE]
       ELSE [keyStates |-> t.keyStates, prevented |-> FALSE]

----------------------------------------------------------------------------
(* Operations of the controller as actions.  The handlers run to completion *)
(* on the single JavaScript thread.                                          *)

NoEvent == [tagName |-> "-", defaultPrevented |-> FALSE]

\* store the controller object t back into the state
SetThis(t) ==
  /\ enabled' = t.enabled
  /\ config' = t.config
  /\ kcModel' = t.model
  /\ kcData' = t.data
  /\ keyStates' = t.keyStates
  /\ actuatorIndices' = t.actuatorIndices
  /\ listeners' = t.listeners
  /\ installs' = t.installs

Enable(sceneName) ==
  LET r == enable(This, sceneName, model)
  IN /\ SetThis(r.this)
     /\ result' = r.ret
     /\ lastOp' = [op |-> "enable", arg |-> sceneName]
     /\ wasEnabled' = enabled
     /\ actuatorValues' = EmptyObj
     /\ event' = NoEvent
     /\ UNCHANGED <<model, ctrl, clockVars, loaderVars>>

Disable_resetsControls ==
  /\ SetThis(disable(This))
  /\ lastOp' = [op |-> "disable", arg |-> "-"]
  /\ wasEnabled' = enabled
  /\ actuatorValues' = EmptyObj
  /\ event' = NoEvent
  /\ ctrl' = [i \in DOMAIN ctrl |-> 0]
  /\ UNCHANGED <<result, model, clockVars, loaderVars>>

Disable ==
  /\ SetThis(disable(This))
  /\ lastOp' = [op |-> "disable", arg |-> "-"]
  /\ wasEnabled' = enabled
  /\ actuatorValues' = EmptyObj
  /\ event' = NoEvent
  /\ UNCHANGED <<result, model, ctrl, clockVars, loaderVars>>

Update ==
  LET r == update(This, model, ctrl)
  IN /\ ctrl' = r.ctrl
     /\ actuatorValues' = [n \in AvNames(r.av) |-> AvValue(r.av, n)]
     /\ lastOp' = [op |-> "update", arg |-> "-"]
     /\ wasEnabled' = enabled
     /\ event' = NoEvent
     /\ UNCHANGED <<kcVars, listeners, installs, result, model, clockVars, loaderVars>>

\* document dispatches a keydown event to the listeners installed for it
KeyDown(code, tagName) ==
  LET r == IF <<"keydown", "_onKeyDown">> \in listeners
           THEN onKeyDown(This, code, tagName)
           ELSE [keyStates |-> keyStates, prevented |-> FALSE]
  IN /\ keyStates' = r.keyStates
     /\ event' = [tagName |-> tagName, defaultPrevented |-> r.prevented]
     /\ lastOp' = [op |-> "keydown", arg |-> "-"]
     /\ wasEnabled' = enabled
     /\ actuatorValues' = EmptyObj
     /\ UNCHANGED <<enabled, config, kcModel, kcData, actuatorIndices, listeners,
                    installs, result, model, ctrl, clockVars, loaderVars>>

\* document dispatches a keyup event to the listeners installed for it
KeyUp(code, tagName) ==
  LET r == IF <<"keyup", "_onKeyUp">> \in listeners
           THEN onKeyUp(This, code, tagName)
           ELSE [keyStates |-> keyStates, prevented |-> FALSE]
  IN /\ keyStates' = r.keyStates
     /\ event' = [tagName |-> tagName, defaultPrevented |-> r.prevented]
     /\ lastOp' = [op |-> "keyup", arg |-> "-"]
     /\ wasEnabled' = enabled
     /\ actuatorValues' = EmptyObj
     /\ UNCHANGED <<enabled, config, kcModel, kcData, actuatorIndices, listeners,
                    installs, result, model, ctrl, clockVars, loaderVars>>

\* the controller after its constructor
InitController ==
  /\ enabled = FALSE
  /\ config = null
  /\ kcModel = null
  /\ kcData = null
  /\ keyStates = EmptyObj
  /\ actuatorIndices = EmptyObj
  /\ listeners = {}
  /\ installs = [type \in {"keydown", "keyup"} |-> 0]
  /\ lastOp = [op |-> "init", arg |-> "-"]
  /\ result = FALSE
  /\ wasEnabled = FALSE
  /\ actuatorValues = EmptyObj
  /\ event = NoEvent


----------------------------------------------------------------------------
(* MuJoCoDemo.render: the simulation clock, control noise and perturbation *)

MaxGapMs == 35                  \* the backlog bound of line 201, ms
ForceScale == 250               \* multiplyScalar(body_mass * 250)
PoseScaleTenths == 3            \* multiplyScalar(0.3), in tenths

Zero3 == <<0, 0, 0>>
Sub3(a, b) == <<a[1] - b[1], a[2] - b[2], a[3] - b[3]>>
Scale3(a, k) == <<a[1] * k, a[2] * k, a[3] * k>>

\* three.js coordinates (x, y, z) as engine coordinates (x, -z, y)
toMujocoPos(v) == <<v[1], 0 - v[3], v[2]>>

NoFT == [force |-> Zero3, torque |-> Zero3, point |-> Zero3, body |-> -1]
NoFrame == [branch |-> "none", prev |-> "none", snapped |-> FALSE, steps |-> 0,
            forward |-> FALSE, applyFT |-> NoFT]

snapTime_boundedCatchUp(mt, t) == IF t - mt > MaxGapMs THEN t - MaxGapMs ELSE mt

\* if (timeMS - this.mujoco_time > 35.0) { this.mujoco_time = timeMS; }
snapTime(mt, t) == IF t - mt > MaxGapMs THEN t ELSE mt

noiseActive_nonNegative(std) == std >= 0

\* if (this.params["ctrlnoisestd"] > 0.0)
noiseActive(std) == std > 0

\* rate = exp(-timestep / max(1e-10, ctrlnoiserate)) in halves: 0 when the
\* noise rate is 0 (the exponential underflows), else a value inside (0, 1)
noiseRate2(noiserate) == IF noiserate <= 0 THEN 0 ELSE 1

\* the values rate * old + scale * standardNormal() can take, where
\* scale = std * sqrt(1 - rate * rate): any value when scale > 0, since the
\* normal sample is unbounded; rate * old (in whole units) when scale = 0
noiseValues(old, std, noiserate) ==
  IF std > 0 THEN NoiseVals
  ELSE {(IF old >= 0 THEN (old * noiseRate2(noiserate)) \div 2
         ELSE 0 - (((0 - old) * noiseRate2(noiserate)) \div 2))}

\* the control vectors the noise step of one loop iteration can leave
noiseStep(c, std, noiserate) ==
  IF noiseActive(std)
  THEN { n \in [DOMAIN c -> UNION { noiseValues(c[i], std, noiserate) : i \in DOMAIN c }] :
           \A i \in DOMAIN c : n[i] \in noiseValues(c[i], std, noiserate) }
  ELSE {c}

clearForces_keepsOld(q) == q

\* for (i ...) qfrc_applied[i] = 0.0
clearForces(q) == [i \in DOMAIN q |-> 0]

\* physicsObject when no object is dragged (null)
NoBody == 0 - 1

\* dragged && dragged.bodyID
dragActive(po) == po # NoBody /\ po # 0

dragForce_massIgnored(m, b, cur, hit) ==
  toMujocoPos(Scale3(Sub3(cur, hit), ForceScale \div 10))

\* the force of the drag spring: points are in units of 0.1
dragForce(m, b, cur, hit) ==
  toMujocoPos(Scale3(Sub3(cur, hit), (m.body_mass[b] * ForceScale) \div 10))

\* the arguments of the mj_applyFT call of one loop iteration
dragFT(m, b, cur, hit) ==
  [force |-> dragForce(m, b, cur, hit), torque |-> Zero3,
   point |-> toMujocoPos(hit), body |-> b]

\* the engine's mj_applyFT on the applied-force buffer: the force is added
\* to the translational degrees of freedom of a body that has a free joint
mj_applyFT(m, ft, q) ==
  IF m.body_jntadr[m.body_rootid[ft.body]] = 0
  THEN [i \in DOMAIN q |-> IF i < 3 THEN q[i] + ft.force[i + 1] ELSE q[i]]
  ELSE q

poseOffset_towardsHit(cur, hit) == toMujocoPos(Scale3(Sub3(hit, cur), PoseScaleTenths))

\* the offset of the paused pose edit, cm
poseOffset(cur, hit) == toMujocoPos(Scale3(Sub3(cur, hit), PoseScaleTenths))

\* pos[addr+0..2] += offset; a write at an undefined address is dropped
addAt(pos, addr, off) ==
  [i \in DOMAIN pos |->
     IF addr >= 0 /\ i >= addr /\ i < addr + 3 THEN pos[i] + off[i - addr + 1] ELSE pos[i]]

\* jnt_qposadr[body_jntadr[root]]: -1 stands for undefined
rootQposAdr(m, b) ==
  LET j == m.body_jntadr[m.body_rootid[b]]
  IN IF j \in DOMAIN m.jnt_qposadr THEN m.jnt_qposadr[j] ELSE -1

----------------------------------------------------------------------------
(* The frame loop as actions.  render is one handler that runs to completion: *)
(* pc is its position, and nothing else runs while it is in its while loop.   *)

\* DragStateManager.update(): the force origin follows the dragged body,
\* which the engine has moved
dragUpdate(hit) == IF physicsObject = NoBody THEN {hit} ELSE Points

RenderBegin_dragSelectsBranch(t) ==
  /\ pc = "idle"
  /\ t <= MaxTime
  /\ timeMS' = t
  /\ IF ~paused \/ dragActive(physicsObject)
     THEN /\ mujoco_time' = snapTime(mujoco_time, t)
          /\ pc' = "loop"
          /\ frame' = [NoFrame EXCEPT !.branch = "running", !.prev = frame.branch,
                                      !.snapped = (t - mujoco_time > MaxGapMs)]
          /\ UNCHANGED <<dataVars, dragVars>>
     ELSE /\ frame' = [NoFrame EXCEPT !.branch = "paused", !.prev = frame.branch,
                                      !.forward = TRUE]
          /\ pc' = "idle"
          /\ UNCHANGED <<mujoco_time, dataVars, dragVars>>
  /\ UNCHANGED <<paused, ctrlnoisestd, ctrlnoiserate, ctrl, model, kcVars, listeners, obsVars, loaderVars>>

\* render(timeMS) up to the while loop (running), or the whole frame (paused)
RenderBegin(t) ==
  /\ pc = "idle"
  /\ t <= MaxTime
  /\ timeMS' = t
  /\ IF ~paused
     THEN /\ mujoco_time' = snapTime(mujoco_time, t)
          /\ pc' = "loop"
          /\ frame' = [NoFrame EXCEPT !.branch = "running", !.prev = frame.branch,
                                      !.snapped = (t - mujoco_time > MaxGapMs)]
          /\ UNCHANGED <<dataVars, dragVars>>
     ELSE \E hit \in dragUpdate(worldHit) :
            LET off == poseOffset(currentWorld, hit)
                b == physicsObject
                newMocap == IF dragActive(b) /\ model.body_mocapid[b] >= 0
                            THEN addAt(mocap_pos, model.body_mocapid[b] * 3, off)
                            ELSE mocap_pos
                newQpos == IF dragActive(b) /\ ~(model.body_mocapid[b] >= 0)
                           THEN addAt(qpos, rootQposAdr(model, b), off)
                           ELSE qpos
            IN /\ \A i \in DOMAIN newMocap : newMocap[i] \in (0 - MaxPos)..MaxPos
               /\ \A i \in DOMAIN newQpos : newQpos[i] \in (0 - MaxPos)..MaxPos
               /\ worldHit' = hit
               /\ mocap_pos' = newMocap
               /\ qpos' = newQpos
               /\ frame' = [NoFrame EXCEPT !.branch = "paused", !.prev = frame.branch,
                                           !.forward = TRUE]
               /\ pc' = "idle"
               /\ UNCHANGED <<mujoco_time, qfrc_applied, physicsObject, currentWorld>>
  /\ UNCHANGED <<paused, ctrlnoisestd, ctrlnoiserate, ctrl, model, kcVars, listeners, obsVars, loaderVars>>

\* one iteration of while (this.mujoco_time < timeMS)
RenderStep ==
  /\ pc = "loop"
  /\ mujoco_time < timeMS
  /\ ctrl' \in noiseStep(ctrl, ctrlnoisestd, ctrlnoiserate)
  /\ IF dragActive(physicsObject)
     THEN \E hit \in dragUpdate(worldHit) :
            LET ft == dragFT(model, physicsObject, currentWorld, hit)
            IN /\ worldHit' = hit
               /\ qfrc_applied' = mj_applyFT(model, ft, clearForces(qfrc_applied))
               /\ frame' = [frame EXCEPT !.steps = @ + 1, !.applyFT = ft]
     ELSE /\ qfrc_applied' = clearForces(qfrc_applied)
          /\ frame' = [frame EXCEPT !.steps = @ + 1, !.applyFT = NoFT]
          /\ UNCHANGED worldHit
  /\ mujoco_time' = mujoco_time + model.opt_timestep
  /\ UNCHANGED <<paused, ctrlnoisestd, ctrlnoiserate, timeMS, pc, qpos, mocap_pos,
                 physicsObject, currentWorld, model, kcVars, listeners, obsVars, loaderVars>>

RenderEnd_anyTime ==
  /\ pc = "loop"
  /\ pc' = "idle"
  /\ UNCHANGED <<paused, ctrlnoisestd, ctrlnoiserate, mujoco_time, timeMS, dataVars,
                 dragVars, frame, ctrl, model, kcVars, listeners, obsVars, loaderVars>>

\* the loop is left: transforms are copied to the render graph, the frame is drawn
RenderEnd ==
  /\ pc = "loop"
  /\ ~(mujoco_time < timeMS)
  /\ pc' = "idle"
  /\ UNCHANGED <<paused, ctrlnoisestd, ctrlnoiserate, mujoco_time, timeMS, dataVars,
                 dragVars, frame, ctrl, model, kcVars, listeners, obsVars, loaderVars>>

\* the GUI's pause switch
SetPaused(b) ==
  /\ pc = "idle"
  /\ paused' = b
  /\ UNCHANGED <<ctrlnoisestd, ctrlnoiserate, mujoco_time, timeMS, pc, dataVars, dragVars,
                 frame, ctrl, model, kcVars, listeners, obsVars, loaderVars>>

\* the GUI's noise sliders
SetNoise(std, rate) ==
  /\ pc = "idle"
  /\ ctrlnoisestd' = std
  /\ ctrlnoiserate' = rate
  /\ UNCHANGED <<paused, mujoco_time, timeMS, pc, dataVars, dragVars,
                 frame, ctrl, model, kcVars, listeners, obsVars, loaderVars>>

\* pointer down on body b at world point p
DragStart(b, p) ==
  /\ pc = "idle"
  /\ physicsObject = NoBody
  /\ physicsObject' = b
  /\ worldHit' = p
  /\ currentWorld' = p
  /\ UNCHANGED <<demoVars, dataVars, frame, ctrl, model, kcVars, listeners, obsVars, loaderVars>>

\* pointer move to world point p during a drag
DragMove(p) ==
  /\ pc = "idle"
  /\ physicsObject # NoBody
  /\ currentWorld' = p
  /\ UNCHANGED <<physicsObject, worldHit, demoVars, dataVars, frame, ctrl, model, kcVars,
                 listeners, obsVars, loaderVars>>

\* pointer up
DragEnd ==
  /\ pc = "idle"
  /\ physicsObject # NoBody
  /\ physicsObject' = NoBody
  /\ worldHit' = Zero3
  /\ currentWorld' = Zero3
  /\ UNCHANGED <<demoVars, dataVars, frame, ctrl, model, kcVars, listeners, obsVars, loaderVars>>

\* the demo after its constructor, with the data of a freshly loaded model
InitDemo ==
  /\ paused = FALSE
  /\ ctrlnoisestd = 0
  /\ ctrlnoiserate = 0
  /\ mujoco_time = 0
  /\ timeMS = 0
  /\ pc = "idle"
  /\ qfrc_applied = [i \in 0..(model.nv - 1) |-> 0]
  /\ qpos = [i \in 0..(model.nq - 1) |-> 0]
  /\ mocap_pos = [i \in 0..(3 * model.nmocap - 1) |-> 0]
  /\ physicsObject = NoBody
  /\ worldHit = Zero3
  /\ currentWorld = Zero3
  /\ frame = NoFrame

----------------------------------------------------------------------------
(* RobotLoader: file names, paths and the string functions applied to them.   *)
(* A path is the sequence of its '/'-separated segments; a segment is the     *)
(* sequence of the pieces of its name, so that "oldmesh" and "mesh" differ by *)
(* a leading piece and "OBJECTS.xml" is OBJECT + S + .xml.                    *)

MaxFiles == 3                   \* most files of an upload

\* the pieces file and folder names are made of
Seg1(a) == <<a>>
Seg2(a, b) == <<a, b>>
Seg3(a, b, c) == <<a, b, c>>

\* path.split('/')
pathParts(path) == path

\* String.prototype.toLowerCase on one piece, and on a name
lowerPiece(t) ==
  IF t \in {"OBJECT", "Object"} THEN "object"
  ELSE IF t = "S" THEN "s"
  ELSE IF t = ".XML" THEN ".xml"
  ELSE t
toLowerCase(seg) == [j \in 1..Len(seg) |-> lowerPiece(seg[j])]

\* path.split('/').pop()
lastPart(path) == path[Len(path)]

\* path.endsWith('.xml')
endsWithXml(path) ==
  LET f == lastPart(path) IN Len(f) > 0 /\ f[Len(f)] = ".xml"

\* fileName.includes('object')
includesObject(fileName) == \E j \in 1..Len(fileName) : fileName[j] = "object"

\* the text of segment k followed by '/' ends with 'mesh/' or with 'meshes/'
endsWithMesh(seg) ==
  \/ Len(seg) >= 1 /\ seg[Len(seg)] = "mesh"
  \/ Len(seg) >= 2 /\ seg[Len(seg) - 1] = "mesh" /\ seg[Len(seg)] = "es"

\* the segments of the path that are followed by '/'
meshMatches(path) == { k \in 1..(Len(path) - 1) : endsWithMesh(path[k]) }

\* path.includes('meshes/') || path.includes('mesh/'): substring tests
includesMesh(path) == meshMatches(path) # {}

\* path.split(/meshes?\//).pop(): what follows the last match
meshName(path) ==
  LET last == IF meshMatches(path) = {} THEN 0
              ELSE CHOOSE k \in meshMatches(path) : \A j \in meshMatches(path) : j <= k
  IN SubSeq(path, last + 1, Len(path))

\* !x for a string or null
falsy(x) == x = null \/ x = ""

\* robotName of loadUploadedRobot: the empty name stands for null as well,
\* both are falsy and the function only tests !robotName
NoName == <<>>

\* the uploaded files: webkitRelativePath || name, and the content
UploadFiles ==
  { [path |-> <<Seg1("so101"), Seg2("so101", ".xml")>>, content |-> "so101"],
    [path |-> <<Seg1("so101"), Seg2("arm", ".xml")>>, content |-> "arm"],
    [path |-> <<Seg1("so101"), Seg3("OBJECT", "S", ".xml")>>, content |-> "objects"],
    [path |-> <<Seg1("so101"), Seg2("empty", ".xml")>>, content |-> ""],
    [path |-> <<Seg2("robot", ".xml")>>, content |-> "robot"],
    [path |-> <<Seg1("so101"), Seg2("mesh", "es"), Seg2("base", ".stl")>>, content |-> "stl1"],
    [path |-> <<Seg1("so101"), Seg1("mesh"), Seg1("sub"), Seg2("base", ".stl")>>,
     content |-> "stl2"],
    [path |-> <<Seg1("so101"), Seg2("old", "mesh"), Seg2("link", ".stl")>>, content |-> "stl3"],
    [path |-> <<Seg1("so101"), Seg1("textures"), Seg2("wood", ".png")>>, content |-> "png"] }

----------------------------------------------------------------------------
(* RobotLoader.loadUploadedRobot *)

\* the locals of a call that has not started
NoCall ==
  [ op |-> "none", pc |-> "done", name |-> "-", files |-> <<>>, i |-> 0,
    robotXml |-> null, objectsXml |-> null, meshFiles |-> EmptyObj, robotName |-> NoName,
    fetched |-> <<>>, outcome |-> "none" ]

\* if (pathParts.length > 1 && !robotName) robotName = pathParts[0]
nameFromPath(c, path) ==
  IF Len(pathParts(path)) > 1 /\ c.robotName = NoName
  THEN [c EXCEPT !.robotName = pathParts(path)[1]]
  ELSE c

\* the .xml branch: objects definition, or the first robot definition
classifyXml(c, path, content) ==
  IF includesObject(toLowerCase(lastPart(path)))
  THEN [c EXCEPT !.objectsXml = content]
  ELSE IF falsy(c.robotXml) THEN [c EXCEPT !.robotXml = content]
       ELSE c

\* meshFiles.set(meshName, buffer)
storeMesh(c, path, buffer) ==
  [c EXCEPT !.meshFiles = Put(@, meshName(path), buffer)]

\* one iteration of for (const file of files), on the next file of the list
uploadFile(c, file) ==
  LET path == file.path
      c1 == nameFromPath(c, path)
      c2 == IF endsWithXml(path) THEN classifyXml(c1, path, file.content)
            ELSE IF includesMesh(path) THEN storeMesh(c1, path, file.content)
            ELSE c1
  IN [c2 EXCEPT !.files = Append(@, file), !.i = @ + 1]

\* after the loop: throw, or default the robot name and return
uploadEnd(c) ==
  IF falsy(c.robotXml)
  THEN [c EXCEPT !.pc = "done", !.outcome = "MissingDefinition"]
  ELSE [c EXCEPT !.pc = "done", !.outcome = "returned",
                 !.robotName = IF @ = NoName THEN Seg1("user_robot") ELSE @]

----------------------------------------------------------------------------
(* RobotLoader.loadPredefinedRobot *)

RobotNames == {"xlerobot", "robot"}

\* what a fetch (and the read of its body) can answer
Responses ==
  { [threw |-> TRUE,  ok |-> FALSE, text |-> ""],
    [threw |-> FALSE, ok |-> FALSE, text |-> "notfound"],
    [threw |-> FALSE, ok |-> TRUE,  text |-> ""],
    [threw |-> FALSE, ok |-> TRUE,  text |-> "xmlA"],
    [threw |-> FALSE, ok |-> TRUE,  text |-> "xmlB"] }

\* [`${robotName}.xml`, 'robot.xml', 'main.xml']
xmlNames(robotName) ==
  << Seg2(robotName, ".xml"), Seg2("robot", ".xml"), Seg2("main", ".xml") >>

\* the loop is left: throw, or go on to the optional objects file
afterCandidates(c) ==
  IF falsy(c.robotXml)
  THEN [c EXCEPT !.pc = "done", !.outcome = "AssetNotFound"]
  ELSE [c EXCEPT !.pc = "objects"]

\* one iteration of for (const name of xmlNames), with the response it gets;
\* the code that follows the loop runs in the same turn when the loop is left
fetchCandidate(c, resp) ==
  LET names == xmlNames(c.name)
      c1 == [c EXCEPT !.fetched = Append(@, [file |-> names[c.i], resp |-> resp]),
                      !.i = @ + 1]
  IN IF ~resp.threw /\ resp.ok
     THEN afterCandidates([c1 EXCEPT !.robotXml = resp.text])
     ELSE IF c1.i > Len(names) THEN afterCandidates(c1) ELSE c1

\* the optional objects.xml, then return
fetchObjects(c, resp) ==
  LET c1 == [c EXCEPT !.fetched = Append(@, [file |-> Seg2("objects", ".xml"), resp |-> resp]),
                      !.pc = "done", !.outcome = "returned"]
  IN IF ~resp.threw /\ resp.ok THEN [c1 EXCEPT !.objectsXml = resp.text] ELSE c1

----------------------------------------------------------------------------
(* RobotLoader.cleanupRobot and the registration of a loaded robot *)

RegistryNames == {"so101", "panda"}

cleanupRobot_clearsAll(lr, robotName) ==
  IF robotName \notin DOMAIN lr THEN lr ELSE EmptyObj

\* robotInfo = loadedRobots.get(robotName); if (!robotInfo) return; delete
cleanupRobot(lr, robotName) ==
  IF robotName \notin DOMAIN lr THEN lr
  ELSE [n \in DOMAIN lr \ {robotName} |-> lr[n]]

\* staging of a robot's files and its registration in loadedRobots
register(lr, robotName) == Put(lr, robotName, [name |-> robotName])

----------------------------------------------------------------------------
(* The loader's operations as actions.  A load is an async function: every   *)
(* await ends a step.  Its locals are its own, so one call at a time is      *)
(* followed.                                                                 *)

NotLoader == <<kcVars, listeners, model, ctrl, obsVars, clockVars>>

\* loadUploadedRobot(files) up to its loop; call.files is the part of the
\* list the loop has gone through: a list of different files, in any order
LoadUploadedRobot ==
  /\ call.pc = "done"
  /\ call' = [NoCall EXCEPT !.op = "loadUploadedRobot", !.pc = "loop", !.i = 1]
  /\ UNCHANGED <<loadedRobots, vfs, NotLoader>>

\* the list has a next file: it is read and classified
UploadFile(file) ==
  /\ call.op = "loadUploadedRobot" /\ call.pc = "loop"
  /\ Len(call.files) < MaxFiles
  /\ \A j \in 1..Len(call.files) : call.files[j] # file
  /\ call' = uploadFile(call, file)
  /\ UNCHANGED <<loadedRobots, vfs, NotLoader>>

\* the list has no next file: the loop is left
UploadEnd ==
  /\ call.op = "loadUploadedRobot" /\ call.pc = "loop"
  /\ call' = uploadEnd(call)
  /\ UNCHANGED <<loadedRobots, vfs, NotLoader>>

\* loadPredefinedRobot(robotName) up to its first fetch
LoadPredefinedRobot(robotName) ==
  /\ call.pc = "done"
  /\ call' = [NoCall EXCEPT !.op = "loadPredefinedRobot", !.pc = "loop", !.name = robotName,
                            !.i = 1]
  /\ UNCHANGED <<loadedRobots, vfs, NotLoader>>

\* the fetch of the next candidate is answered
FetchCandidate(resp) ==
  /\ call.op = "loadPredefinedRobot" /\ call.pc = "loop"
  /\ call' = fetchCandidate(call, resp)
  /\ UNCHANGED <<loadedRobots, vfs, NotLoader>>

\* the fetch of objects.xml is answered
FetchObjects(resp) ==
  /\ call.op = "loadPredefinedRobot" /\ call.pc = "objects"
  /\ call' = fetchObjects(call, resp)
  /\ UNCHANGED <<loadedRobots, vfs, NotLoader>>

\* cleanupRobot(robotName)
CleanupRobot(robotName) ==
  /\ call.pc = "done"
  /\ loadedRobots' = cleanupRobot(loadedRobots, robotName)
  /\ call' = [NoCall EXCEPT !.op = "cleanupRobot", !.name = robotName]
  /\ UNCHANGED <<vfs, NotLoader>>

\* a loaded robot is staged into the virtual filesystem and registered
RegisterRobot(robotName) ==
  /\ call.pc = "done"
  /\ loadedRobots' = register(loadedRobots, robotName)
  /\ vfs' = vfs \cup {robotName}
  /\ call' = [NoCall EXCEPT !.op = "register", !.name = robotName]
  /\ UNCHANGED NotLoader

\* the loader after its constructor
InitLoader ==
  /\ loadedRobots = EmptyObj
  /\ vfs = {}
  /\ call = NoCall

----------------------------------------------------------------------------
(* Specifications *)

\* a controller used with any model; data.ctrl holds what the engine left in it
Init ==
  /\ InitController
  /\ model \in Models
  /\ \E v \in CtrlInit : ctrl = [i \in 0..(model.nu - 1) |-> v]
  /\ InitDemo
  /\ InitLoader

Next ==
  \/ \E sceneName \in SceneNames : Enable(sceneName)
  \/ Disable
  \/ Update
  \/ \E code \in EventCodes, tagName \in TagNames : KeyDown(code, tagName)
  \/ \E code \in EventCodes, tagName \in TagNames : KeyUp(code, tagName)

Spec == Init /\ [][Next]_vars

\* the frame loop on a loaded scene, the keyboard controller not enabled
InitClock ==
  /\ InitController
  /\ model \in ClockModels
  /\ \E v \in CtrlInit : ctrl = [i \in 0..(model.nu - 1) |-> v]
  /\ InitDemo
  /\ InitLoader

NextClock ==
  \/ \E d \in FrameDeltas : RenderBegin(timeMS + d)
  \/ RenderStep
  \/ RenderEnd
  \/ \E b \in BOOLEAN : SetPaused(b)
  \/ \E std \in NoiseStds, rate \in NoiseRates : SetNoise(std, rate)

SpecClock == InitClock /\ [][NextClock]_vars

\* the frame loop with drag sessions, the noise switched off
NextDrag ==
  \/ \E d \in DragFrameDeltas : timeMS + d <= MaxDragTime /\ RenderBegin(timeMS + d)
  \/ RenderStep
  \/ RenderEnd
  \/ \E b \in BOOLEAN : SetPaused(b)
  \/ \E b \in 0..(model.nbody - 1), p \in Points : DragStart(b, p)
  \/ \E p \in Points : DragMove(p)
  \/ DragEnd

InitDrag ==
  /\ InitController
  /\ model \in { m \in ClockModels : m.opt_timestep = 5 }
  /\ ctrl = [i \in 0..(model.nu - 1) |-> 0]
  /\ InitDemo
  /\ InitLoader

SpecDrag == InitDrag /\ [][NextDrag]_vars

\* the loader used on its own, a scene loaded and at rest
InitLoaderOnly ==
  /\ InitController
  /\ model \in { m \in ClockModels : m.opt_timestep = 2 }
  /\ ctrl = [i \in 0..(model.nu - 1) |-> 0]
  /\ InitDemo
  /\ InitLoader

NextLoader ==
  \/ LoadUploadedRobot
  \/ \E file \in UploadFiles : UploadFile(file)
  \/ UploadEnd
  \/ \E robotName \in RobotNames : LoadPredefinedRobot(robotName)
  \/ \E resp \in Responses : FetchCandidate(resp)
  \/ \E resp \in Responses : FetchObjects(resp)
  \/ \E robotName \in RegistryNames : CleanupRobot(robotName)
  \/ \E robotName \in RegistryNames : RegisterRobot(robotName)

SpecLoader == InitLoaderOnly /\ [][NextLoader]_vars

----------------------------------------------------------------------------
(* Properties of the keyboard controller, checked under Spec *)

CtrlState == <<enabled, config, kcModel, kcData, keyStates, actuatorIndices, listeners>>

Cleared ==
  /\ ~enabled
  /\ config = null
  /\ kcModel = null
  /\ kcData = null
  /\ keyStates = EmptyObj
  /\ actuatorIndices = EmptyObj
  /\ listeners = {}

\* the operation that led to the current state: every operation records its
\* name, so a step that changes the state and ends in IsEnable is an enable call
IsEnable == lastOp.op = "enable"
IsDisable == lastOp.op = "disable"
IsUpdate == lastOp.op = "update"

BothListeners == {<<"keydown", "_onKeyDown">>, <<"keyup", "_onKeyUp">>}
TextInputTags == {"INPUT", "TEXTAREA"}

\* the actuators and keys a scene's control table names
TableActuators(cfg) == { Controls(cfg)[j].actuator : j \in 1..Len(Controls(cfg)) }
TableKeys(cfg) == { Controls(cfg)[j].key : j \in 1..Len(Controls(cfg)) }

\* the names of the model's actuators, and the indices of those a table names
ModelActuators == { decodeName(model, i) : i \in 0..(model.nu - 1) }
TableIndices(cfg) == { i \in 0..(model.nu - 1) : decodeName(model, i) \in TableActuators(cfg) }

\* the sum of the step values of the pressed keys the table binds to actuator a
RECURSIVE PressedSum(_, _, _)
PressedSum(controls, j, a) ==
  IF j > Len(controls) THEN 0
  ELSE (IF controls[j].actuator = a /\ keyStates[controls[j].key]
        THEN controls[j].value ELSE 0) + PressedSum(controls, j + 1, a)

\* C1 as stated: for every scene name without a control configuration, enable
\* returns false and leaves the controller state (enabled flag, config,
\* model/data references, key states, actuator bindings, listeners) as it was
\* before the call, whatever that state was.
C1_UnconfiguredEnableKeepsState ==
  [][IsEnable' /\ ~hasConfig(lastOp'.arg) => (result' = FALSE /\ CtrlState' = CtrlState)]_vars

\* C1 amended: for every scene name without a control configuration, enable
\* returns false and leaves the controller disabled with cleared state and no
\* listener; the state is as before the call when the controller was not
\* enabled before it.
C1_UnconfiguredEnableDisables ==
  [][IsEnable' /\ ~hasConfig(lastOp'.arg) =>
          /\ result' = FALSE
          /\ Cleared'
          /\ (~enabled => CtrlState' = CtrlState)]_vars

\* an enable of an unconfigured scene that found a mapping enabled and removed it
C1_Witness ==
  IsEnable /\ ~hasConfig(lastOp.arg) /\ result = FALSE /\ wasEnabled /\ Cleared

\* C2: for every scene name with a registered control configuration, enable
\* returns true and leaves the controller enabled with that scene's config;
\* disable leaves no listener and cleared state, and a disable of a disabled
\* controller changes nothing.
C2_EnableThenDisable ==
  [][/\ IsEnable' /\ hasConfig(lastOp'.arg) =>
          (result' = TRUE /\ enabled' /\ config' = lastOp'.arg /\ listeners' = BothListeners)
     /\ IsDisable' => Cleared'
     /\ (IsDisable' /\ ~enabled) => (CtrlState' = CtrlState /\ ctrl' = ctrl)]_vars

\* a disable that found a mapping enabled, with keys held, and cleared it
C2_Witness ==
  IsDisable /\ wasEnabled /\ Cleared /\ installs = [type \in {"keydown", "keyup"} |-> 0]

\* C3: in every reachable state exactly one keydown and one keyup listener are
\* installed when the controller is enabled and none when it is disabled, and
\* the installs not yet matched by an uninstall are one per event type when
\* enabled and none when disabled.
C3_ListenersMatchEnabled ==
  /\ listeners = (IF enabled THEN BothListeners ELSE {})
  /\ installs = [type \in {"keydown", "keyup"} |-> IF enabled THEN 1 ELSE 0]

\* an enable on a controller that was already enabled
C3_Witness ==
  IsEnable /\ wasEnabled /\ enabled /\ listeners = BothListeners

\* C4 as stated: a key event (keydown or keyup) whose target is an INPUT or
\* TEXTAREA element changes no key state and is not intercepted; an event
\* elsewhere changes key state or is intercepted only for a key of the active
\* scene's control table.
C4_KeyEventsIgnoreTextInputs ==
  [][\A c \in EventCodes, tag \in TagNames :
       (KeyDown(c, tag) \/ KeyUp(c, tag)) =>
          /\ tag \in TextInputTags =>
               (keyStates' = keyStates /\ ~event'.defaultPrevented)
          /\ (keyStates' # keyStates \/ event'.defaultPrevented) =>
               (enabled /\ c \in TableKeys(config))]_vars

\* C5: after update on an enabled controller the local actuatorValues holds,
\* for exactly the actuators the active table binds and the model has, the sum
\* of the step values of the currently pressed keys bound to that actuator
\* (0 for opposing keys of equal magnitude, 0 when no key is pressed).
C5_PreClampSum ==
  (IsUpdate /\ enabled) =>
     /\ DOMAIN actuatorValues = TableActuators(config) \cap ModelActuators
     /\ \A a \in DOMAIN actuatorValues :
          actuatorValues[a] = PressedSum(Controls(config), 1, a)

\* update ran with both opposing keys of one actuator pressed and summed them to 0
C5_Witness ==
  /\ IsUpdate /\ enabled
  /\ keyStates["KeyW"] /\ keyStates["KeyS"] /\ keyStates["KeyD"] /\ ~keyStates["KeyA"]
  /\ DOMAIN actuatorValues = {"forward", "turn"}
  /\ actuatorValues["forward"] = 0
  /\ actuatorValues["turn"] = 1

\* what C6 says is written for a summed value v of the actuator at index idx
ClampedAsClaimed(idx, v, written) ==
  LET lo == model.actuator_ctrlrange[2 * idx]
      hi == model.actuator_ctrlrange[2 * idx + 1]
  IN IF model.actuator_ctrllimited[idx]
     THEN /\ v < lo => written = lo
          /\ v > hi => written = hi
          /\ (lo <= v /\ v <= hi) => written = v
     ELSE written = v

\* C6: the value update writes for an actuator is min when the sum is below
\* min, max when it is above max and the sum itself inside [min, max], if the
\* actuator's limited flag is set; it is the sum itself if the flag is not set.
C6_ClampToRange ==
  (IsUpdate /\ enabled) =>
     \A a \in DOMAIN actuatorValues :
        \A i \in 0..(model.nu - 1) :
           decodeName(model, i) = a => ClampedAsClaimed(i, actuatorValues[a], ctrl[i])

\* update wrote min for a sum below min and max for a sum above max
C6_Witness ==
  /\ IsUpdate /\ enabled
  /\ \E a, b \in DOMAIN actuatorValues :
       LET i == actuatorIndices[a]
           j == actuatorIndices[b]
       IN /\ model.actuator_ctrllimited[i] /\ model.actuator_ctrllimited[j]
          /\ actuatorValues[a] < model.actuator_ctrlrange[2 * i]
          /\ ctrl[i] = model.actuator_ctrlrange[2 * i]
          /\ actuatorValues[b] > model.actuator_ctrlrange[2 * j + 1]
          /\ ctrl[j] = model.actuator_ctrlrange[2 * j + 1]

\* C7: a second update right after an update, with no key event, enable or
\* disable in between, leaves the control vector as the first one left it.
C7_UpdateIdempotent ==
  IsUpdate => update(This, model, ctrl).ctrl = ctrl

\* update ran with a key held and wrote a non-zero value
C7_Witness ==
  /\ IsUpdate /\ enabled
  /\ \E a \in DOMAIN actuatorValues :
       actuatorValues[a] # 0 /\ ctrl[actuatorIndices[a]] # 0

\* C8: update on a disabled controller writes no control entry; update on an
\* enabled controller leaves every entry of an actuator that the active
\* table does not name as it was.
C8_UpdateWritesOnlyTableEntries ==
  [][IsUpdate' =>
       /\ ~enabled => ctrl' = ctrl
       /\ enabled => \A i \in DOMAIN ctrl : i \notin TableIndices(config) => ctrl'[i] = ctrl[i]]_vars

\* update on an enabled controller wrote the entry of a table actuator and
\* left the entry of another actuator at the value found at start
C8_Witness ==
  /\ IsUpdate /\ enabled
  /\ \E i, j \in DOMAIN ctrl :
       /\ i \in TableIndices(config) /\ ctrl[i] # 7
       /\ j \notin TableIndices(config) /\ ctrl[j] = 7

----------------------------------------------------------------------------
(* Properties of the frame loop, checked under SpecClock *)

\* C9: in an unpaused frame whose wall time exceeds the simulation time by more
\* than 35 ms, the simulation time equals the wall time and no physics step is
\* performed in that frame, also in the first running frame after a pause.
C9_BacklogDropped ==
  (frame.branch = "running" /\ frame.snapped) =>
     (mujoco_time = timeMS /\ frame.steps = 0)

\* a finished running frame that dropped the backlog right after a paused frame
C9_Witness ==
  /\ pc = "idle" /\ frame.branch = "running" /\ frame.snapped /\ frame.prev = "paused"
  /\ mujoco_time = timeMS /\ ~paused

\* C10: with a noise std of 0, an iteration of the step loop leaves every
\* control value as it was, for every noise rate and every number of steps.
C10_NoNoiseKeepsControls ==
  [][(RenderStep /\ ctrlnoisestd = 0) => ctrl' = ctrl]_vars

\* the second or a later step of a frame with noise std 0 and a positive noise
\* rate, the controls still at the non-zero values found at start
C10_Witness ==
  /\ frame.branch = "running" /\ frame.steps >= 2
  /\ ctrlnoisestd = 0 /\ ctrlnoiserate > 0
  /\ \A i \in DOMAIN ctrl : ctrl[i] = 7

----------------------------------------------------------------------------
(* Properties of the perturbation, checked under SpecDrag *)

\* the frame is inside the step loop of a running frame, a step has run
InStepLoop == pc = "loop" /\ frame.steps > 0

\* a step of the running branch, and a whole paused frame
IsRunningStep == pc = "loop" \/ pc' = "loop"
IsPausedFrame == pc = "idle" /\ pc' = "idle" /\ timeMS' # timeMS

\* C11: while running with an active drag session, each physics step finds
\* the applied-force buffer holding only the force of this iteration: the
\* buffer was zeroed, then the force (currentWorld - worldHit) * bodyMass * 250
\* (in engine coordinates) with zero torque was applied to the dragged body at
\* the hit point.
C11_DragForceApplied ==
  (InStepLoop /\ dragActive(physicsObject)) =>
     LET d == Sub3(currentWorld, worldHit)
         k == (model.body_mass[physicsObject] * ForceScale) \div 10
         f == <<d[1] * k, 0 - d[3] * k, d[2] * k>>
         ft == frame.applyFT
     IN /\ ft.force = f
        /\ ft.torque = Zero3
        /\ ft.point = <<worldHit[1], 0 - worldHit[3], worldHit[2]>>
        /\ ft.body = physicsObject
        /\ qfrc_applied = mj_applyFT(model, ft, [i \in DOMAIN qfrc_applied |-> 0])

\* the second or a later step of a drag of the free body of mass 2 from
\* (0,0,0) to (0.1,0,0): a force of 50 along x, and nothing else in the buffer
C11_Witness ==
  /\ pc = "loop" /\ frame.steps >= 2
  /\ physicsObject = 1 /\ model.body_mass[1] = 2
  /\ worldHit = <<0, 0, 0>> /\ currentWorld = <<1, 0, 0>>
  /\ frame.applyFT.force = <<50, 0, 0>> /\ frame.applyFT.torque = Zero3
  /\ qfrc_applied = [i \in 0..6 |-> IF i = 0 THEN 50 ELSE 0]

\* C12: the pause flag alone selects the branch of a frame: a step of a running
\* frame happens only when not paused, edits neither mocap nor joint positions
\* and does not call the forward recompute; a paused frame happens only when
\* paused, applies no drag force, performs no physics step, leaves the
\* simulation time as it was and calls the forward recompute.
C12_BranchByPauseFlag ==
  [][/\ IsRunningStep =>
          /\ ~paused
          /\ qpos' = qpos /\ mocap_pos' = mocap_pos
          /\ frame'.branch = "running" /\ ~frame'.forward
     /\ IsPausedFrame =>
          /\ paused
          /\ mujoco_time' = mujoco_time /\ qfrc_applied' = qfrc_applied
          /\ frame'.branch = "paused" /\ frame'.forward
          /\ frame'.steps = 0 /\ frame'.applyFT = NoFT]_vars

\* a paused frame with an active drag session that edited the pose, right
\* after a running frame that applied a drag force
C12_Witness ==
  /\ pc = "idle" /\ paused /\ frame.branch = "paused" /\ frame.prev = "running"
  /\ dragActive(physicsObject) /\ currentWorld # worldHit
  /\ (\E i \in DOMAIN qpos : qpos[i] # 0)
  /\ (\E i \in DOMAIN qfrc_applied : qfrc_applied[i] # 0)

----------------------------------------------------------------------------
(* Properties of the robot loader, checked under SpecLoader *)

IsPredefined == call.op = "loadPredefinedRobot"
IsUpload == call.op = "loadUploadedRobot"
IsCleanup == call.op = "cleanupRobot"

\* the candidate files C13 names, in its order
Candidates(robotName) ==
  << <<robotName, ".xml">>, <<"robot", ".xml">>, <<"main", ".xml">> >>

\* the fetches of candidates a call has made: all but the one of objects.xml
CandidateFetches ==
  IF call.outcome = "returned" THEN SubSeq(call.fetched, 1, Len(call.fetched) - 1)
  ELSE call.fetched

\* a fetch that neither threw nor answered not-ok
Succeeded(f) == ~f.resp.threw /\ f.resp.ok

\* C13 as stated: loadPredefinedRobot fetches name.xml, robot.xml, main.xml in
\* that order; a failed fetch is followed by the fetch of the next candidate;
\* the first fetch that succeeds is the last one, its content is the robot
\* definition and the load does not fail; the load fails with AssetNotFound
\* exactly when all three fetches failed.
C13_FirstSuccessfulCandidateWins ==
  (IsPredefined /\ call.pc # "loop") =>
     LET cand == CandidateFetches
         n == Len(cand)
     IN /\ n \in 1..3
        /\ \A k \in 1..n : cand[k].file = Candidates(call.name)[k]
        /\ \A k \in 1..(n - 1) : ~Succeeded(cand[k])
        /\ Succeeded(cand[n]) \/ n = 3
        /\ Succeeded(cand[n]) =>
             (call.robotXml = cand[n].resp.text /\ call.outcome # "AssetNotFound")
        /\ call.outcome = "AssetNotFound" <=>
             (n = 3 /\ \A k \in 1..n : ~Succeeded(cand[k]))

\* what C14 to C16 say of a file name
IsXmlFile(f) == f.path[Len(f.path)][Len(f.path[Len(f.path)])] = ".xml"
IsObjectFile(f) ==
  IsXmlFile(f) /\ \E j \in 1..Len(f.path[Len(f.path)]) :
                     f.path[Len(f.path)][j] \in {"object", "OBJECT", "Object"}
IsRobotFile(f) == IsXmlFile(f) /\ ~IsObjectFile(f)

\* the positions of the robot definition files in the list gone through
RobotFilePositions == { j \in 1..Len(call.files) : IsRobotFile(call.files[j]) }
FirstRobotFile ==
  call.files[CHOOSE j \in RobotFilePositions : \A k \in RobotFilePositions : j <= k]

\* C14 as stated: in every order of the files, an .xml file whose name contains
\* 'object' in any letter case is the objects definition and never the robot
\* definition, and the robot definition is the first .xml file without
\* 'object' in its name: no later one replaces it.
C14_FirstRobotFileKept ==
  IsUpload =>
     /\ \A j \in 1..Len(call.files) :
          IsObjectFile(call.files[j]) =>
             /\ call.robotXml # call.files[j].content
             /\ \E k \in j..Len(call.files) :
                  IsObjectFile(call.files[k]) /\ call.objectsXml = call.files[k].content
     /\ RobotFilePositions # {} => call.robotXml = FirstRobotFile.content
     /\ RobotFilePositions = {} => call.robotXml = null

\* the positions of the files with a nested path
NestedPositions == { j \in 1..Len(call.files) : Len(call.files[j].path) > 1 }

\* C15 as stated: loadUploadedRobot fails with MissingDefinition if and only
\* if the upload has no .xml file without 'object' in its name; otherwise it
\* returns a robot definition and a non-empty robot name: the first path
\* segment of the first file with a nested path, else the placeholder.
C15_FailsIffNoRobotFile ==
  (IsUpload /\ call.pc = "done") =>
     /\ call.outcome = "MissingDefinition" <=> RobotFilePositions = {}
     /\ RobotFilePositions # {} =>
          /\ call.outcome = "returned"
          /\ call.robotXml # null
          /\ call.robotName # <<>>
          /\ call.robotName =
               IF NestedPositions = {} THEN <<"user_robot">>
               ELSE call.files[CHOOSE j \in NestedPositions :
                                  \A k \in NestedPositions : j <= k].path[1]

\* the folders of a path named mesh or meshes, and the path below the last one
MeshSegments(path) ==
  { k \in 1..(Len(path) - 1) : path[k] = <<"mesh">> \/ path[k] = <<"mesh", "es">> }
BelowMeshSegment(path) ==
  SubSeq(path, (CHOOSE k \in MeshSegments(path) : \A j \in MeshSegments(path) : j <= k) + 1,
         Len(path))

\* the files whose blob the mesh map holds (the files have different contents)
Captured(f) == \E key \in DOMAIN call.meshFiles : call.meshFiles[key] = f.content

\* C16 as stated: a non-xml file with a folder named meshes or mesh in its path
\* is in the mesh map under its path below that folder, a non-xml file without
\* such a folder is not in the map, and files with different paths below the
\* folder have different keys, so that each of them is in the map.
C16_MeshesKeyedBelowMeshFolder ==
  IsUpload =>
     \A j \in 1..Len(call.files) :
        LET f == call.files[j]
        IN ~IsXmlFile(f) =>
             /\ MeshSegments(f.path) # {} =>
                  /\ BelowMeshSegment(f.path) \in DOMAIN call.meshFiles
                  /\ call.meshFiles[BelowMeshSegment(f.path)] = f.content
             /\ MeshSegments(f.path) = {} => ~Captured(f)

----------------------------------------------------------------------------
(* Properties of the simulation clock, checked under SpecClock *)

CeilDiv(a, b) == (a + b - 1) \div b

\* the simulation time at which the current running frame entered its loop:
\* every step advanced it by one timestep
LoopStart == mujoco_time - frame.steps * model.opt_timestep

\* C18: a running frame that did not drop the backlog (gap at most 35 ms)
\* takes at most ceil(35 ms / timestep) steps, each of them with the simulation
\* time still behind the wall time; when it ends, the simulation time is not
\* less than the wall time and, if a step was taken, less than one timestep
\* beyond it; it takes no step when the wall time is not ahead of the
\* simulation time at its start.
C18_StepsUntilWallTime ==
  (frame.branch = "running" /\ ~frame.snapped) =>
     /\ frame.steps <= CeilDiv(MaxGapMs, model.opt_timestep)
     /\ frame.steps > 0 => mujoco_time - model.opt_timestep < timeMS
     /\ timeMS <= LoopStart => frame.steps = 0
     /\ pc = "idle" => mujoco_time >= timeMS

\* a finished running frame that took the most steps a frame can take and went
\* beyond the wall time
C18_Witness ==
  /\ pc = "idle" /\ frame.branch = "running" /\ ~frame.snapped
  /\ frame.steps = CeilDiv(MaxGapMs, model.opt_timestep)
  /\ mujoco_time > timeMS

----------------------------------------------------------------------------
(* Further properties of the keyboard controller, checked under Spec *)

\* C19: update on an enabled controller computes and writes no value for a
\* table actuator the model does not have, leaves every control entry that
\* does not belong to a table actuator of the model as it was, and writes for
\* every table actuator the model has the (clamped) sum of its pressed keys.
C19_MissingActuatorSkipped ==
  [][(IsUpdate' /\ enabled) =>
       /\ \A a \in TableActuators(config) \ ModelActuators : a \notin DOMAIN actuatorValues'
       /\ \A i \in DOMAIN ctrl :
            IF decodeName(model, i) \in TableActuators(config)
            THEN ClampedAsClaimed(i, PressedSum(Controls(config), 1, decodeName(model, i)),
                                  ctrl'[i])
            ELSE ctrl'[i] = ctrl[i]]_vars

\* update on a model that has the table's forward actuator but not its turn
\* actuator, with a key of each pressed: the forward value is written, nothing
\* is computed for turn, the entry of the third actuator is as found at start
C19_Witness ==
  /\ IsUpdate /\ enabled
  /\ "turn" \notin ModelActuators
  /\ keyStates["KeyW"] /\ ~keyStates["KeyS"] /\ keyStates["KeyD"]
  /\ DOMAIN actuatorValues = {"forward"}
  /\ \E i, j \in DOMAIN ctrl :
       /\ decodeName(model, i) = "forward" /\ ~model.actuator_ctrllimited[i] /\ ctrl[i] = 1
       /\ decodeName(model, j) = "gripper" /\ ctrl[j] = 7

----------------------------------------------------------------------------
(* Properties of the paused pose edit, checked under SpecDrag *)

\* pos with the offset added to the three entries from address addr on
AddTriple(pos, addr, off) ==
  [i \in DOMAIN pos |-> IF i \in addr..(addr + 2) THEN pos[i] + off[i - addr + 1] ELSE pos[i]]

\* 0.3 * (currentWorld - worldHit) in engine coordinates, cm; worldHit is the
\* force origin as updated at the start of the paused frame
EditOffset ==
  LET d == Sub3(currentWorld, worldHit')
  IN <<PoseScaleTenths * d[1], 0 - PoseScaleTenths * d[3], PoseScaleTenths * d[2]>>

\* the kinematic root of body b has a joint, and the address of its coordinates
HasRootJoint(b) == model.body_jntadr[model.body_rootid[b]] \in DOMAIN model.jnt_qposadr
RootJointAdr(b) == model.jnt_qposadr[model.body_jntadr[model.body_rootid[b]]]

\* C20 as stated: a paused frame with an active drag session adds the offset
\* 0.3 * (currentWorld - worldHit) to exactly one position triple, the mocap
\* position of a mocap body, otherwise the position coordinates of the root
\* joint of the body's kinematic root; it leaves the other buffer and every
\* other entry as they were and runs the forward recompute.
C20_PoseEditOneTriple ==
  [][(IsPausedFrame /\ dragActive(physicsObject)) =>
       LET b == physicsObject
       IN /\ IF model.body_mocapid[b] >= 0
             THEN /\ mocap_pos' = AddTriple(mocap_pos, 3 * model.body_mocapid[b], EditOffset)
                  /\ qpos' = qpos
             ELSE /\ HasRootJoint(b)
                  /\ qpos' = AddTriple(qpos, RootJointAdr(b), EditOffset)
                  /\ mocap_pos' = mocap_pos
          /\ frame'.forward]_vars

\* C20 amended: a paused frame with an active drag session adds the offset
\* 0.3 * (currentWorld - worldHit), in engine coordinates, to at most one
\* position triple: the mocap position of a mocap body; otherwise the three
\* joint coordinates from the address of the first joint of the body's
\* kinematic root on, and nothing when that root has no joint (a body fixed
\* to the world).  It leaves the other buffer and every other entry as they
\* were and runs the forward recompute.
C20_PoseEditAtMostOneTriple ==
  [][(IsPausedFrame /\ dragActive(physicsObject)) =>
       LET b == physicsObject
       IN /\ IF model.body_mocapid[b] >= 0
             THEN /\ mocap_pos' = AddTriple(mocap_pos, 3 * model.body_mocapid[b], EditOffset)
                  /\ qpos' = qpos
             ELSE /\ qpos' = IF HasRootJoint(b) THEN AddTriple(qpos, RootJointAdr(b), EditOffset)
                             ELSE qpos
                  /\ mocap_pos' = mocap_pos
          /\ frame'.forward]_vars

\* a paused frame with a drag of a body fixed to the world, pulled away from
\* the hit point: no position was edited, the forward recompute ran
C20_Witness ==
  /\ pc = "idle" /\ paused /\ frame.branch = "paused" /\ frame.forward
  /\ physicsObject = 4 /\ ~HasRootJoint(4) /\ model.body_mocapid[4] < 0
  /\ currentWorld # worldHit
  /\ \A i \in DOMAIN qpos : qpos[i] = 0
  /\ \A i \in DOMAIN mocap_pos : mocap_pos[i] = 0

----------------------------------------------------------------------------
(* The scope of the key states, checked under Spec *)

\* every key of scene s's control table is tracked by ks and released
AllReleased(ks, s) == ks = [k \in TableKeys(s) |-> FALSE]

\* C21: in every reachable state the tracked keys are exactly the keys of the
\* active scene's control table when the controller is enabled and none when
\* it is disabled; right after an enable that succeeded every configured key
\* is released, and an enable called in any reachable state, keys pressed or
\* not, leaves every configured key released.
C21_KeyStatesScoped ==
  /\ DOMAIN keyStates = (IF enabled THEN TableKeys(config) ELSE {})
  /\ (IsEnable /\ enabled) => AllReleased(keyStates, config)
  /\ \A s \in SceneNames :
       hasConfig(s) => AllReleased(enable(This, s, model).this.keyStates, s)

\* an enable on a controller that was enabled before: all four keys of the
\* table are tracked and released
C21_Witness ==
  /\ IsEnable /\ wasEnabled /\ enabled
  /\ DOMAIN keyStates = {"KeyW", "KeyS", "KeyA", "KeyD"}
  /\ \A k \in DOMAIN keyStates : ~keyStates[k]

----------------------------------------------------------------------------
(* The life of an applied force, checked under SpecDrag *)

\* the buffer a step finds when force f was applied to body b in its iteration:
\* f on the translational degrees of freedom of a free root body, 0 elsewhere
OneForce(b, f) ==
  [i \in DOMAIN qfrc_applied |->
     IF i < 3 /\ model.body_jntadr[model.body_rootid[b]] = 0 THEN f[i + 1] ELSE 0]

\* C22: every physics step runs on an applied-force buffer that was zeroed in
\* its own loop iteration: with an active drag session the buffer holds the
\* force of this iteration once, not added to the force of an earlier step;
\* without one (no drag, or the drag has ended) the buffer is all zero.
C22_ForceLivesOneStep ==
  InStepLoop =>
     IF dragActive(physicsObject)
     THEN qfrc_applied = OneForce(physicsObject, frame.applyFT.force)
     ELSE /\ \A i \in DOMAIN qfrc_applied : qfrc_applied[i] = 0
          /\ frame.applyFT = NoFT

\* the second or a later step of a frame that runs without a drag session,
\* after a frame that ran: the buffer is all zero
C22_Witness ==
  /\ pc = "loop" /\ frame.steps >= 2 /\ frame.prev = "running"
  /\ physicsObject = NoBody
  /\ \A i \in DOMAIN qfrc_applied : qfrc_applied[i] = 0

----------------------------------------------------------------------------
(* The control vector across disable, checked under Spec *)

\* C23: disable, and enable with its disable of the previous mapping, leave
\* every entry of the control vector as it was, and so does update on a
\* disabled controller: values written by update while keys were held stay.
C23_DisableKeepsControls ==
  [][/\ (IsDisable' \/ IsEnable') => ctrl' = ctrl
     /\ (IsUpdate' /\ ~enabled) => ctrl' = ctrl]_vars

\* update ran on a disabled controller: the forward entry still holds the
\* value 1 that an update wrote while KeyW was held (not a value found at start)
C23_Witness ==
  /\ IsUpdate /\ ~enabled /\ Cleared
  /\ \E i \in DOMAIN ctrl :
       /\ decodeName(model, i) = "forward" /\ ~model.actuator_ctrllimited[i]
       /\ ctrl[i] = 1 /\ ctrl[i] \notin CtrlInit

====
